---- MODULE Spec2Model ----
(***************************************************************************)
(* ArrayVec<T, C>: a fixed-capacity vector over [MaybeUninit<T>; C] with a *)
(* write cursor (src/src/lib.rs).  Every slot carries its initialisation   *)
(* state, every element is a distinct id, and the model records which      *)
(* elements have been dropped and which have been handed to the caller.    *)
(***************************************************************************)
EXTENDS Integers, Sequences, FiniteSets, TLC

\* Capacity of the container (the const generic parameter C).
C == 3

\* The most elements one extend call appends.
MaxExtend == 2

\* Smallest pointer width Rust supports; usize arithmetic wraps modulo 2^16
\* there when overflow checks are off.
UsizeBits == 16

\* A bit pattern of T that is not any element the caller constructed.
NoElem == 0

VARIABLES data, write, alive, last, lifo

vars == <<data, write, alive, last, lifo>>

----------------------------------------------------------------------------
\* Slots

\* MaybeUninit::uninit()
Uninit == [init |-> FALSE, val |-> NoElem]

\* MaybeUninit::write(v) leaves the slot holding v
Slot(v) == [init |-> TRUE, val |-> v]

\* The values of T found in the initialised slots of the array d.
Stored(d) == {d[i].val : i \in {j \in DOMAIN d : d[j].init}}

\* What a read of uninitialised memory can produce: a copy of the bits of an
\* element the container held when the call began, or bits of no element.
UBValues == {NoElem} \cup Stored(data)

\* The outcomes of the n-th read of uninitialised memory within one call.
UBSeqs(n) == [1..n -> UBValues]

\* An element is dropped (core::mem::drop, end of scope, or unwinding).
Drop(m, v) == [m EXCEPT !.dropped = Append(@, v)]

\* The n-th uninitialised read of the call.
UBRead(m, ub) == ub[m.nub + 1]

\* The working state of one call: the container's fields plus the record of
\* what the call did (drops, reads of uninitialised slots, overwrites of
\* initialised slots).
Machine ==
    [data |-> data, write |-> write,
     dropped |-> <<>>, nub |-> 0, bad |-> FALSE, ovw |-> FALSE]

\* Option<T> and () as returned values.
Some(x) == <<x>>
None == <<>>
Unit == <<>>

\* A call that returns `ret`.
Return(m, ret) == [m |-> m, ret |-> ret, panicked |-> FALSE]

\* A call that panics.
Panic(m) == [m |-> m, ret |-> Unit, panicked |-> TRUE]

----------------------------------------------------------------------------
\* The container's methods, as functions of the working state

\* unsafe fn take: mem::replace(pos, MaybeUninit::uninit()).assume_init()
take(m, index, ub) ==
    LET pos == m.data[index]
    IN  [m   |-> [m EXCEPT !.data[index] = Uninit,
                           !.nub = IF pos.init THEN @ ELSE @ + 1,
                           !.bad = @ \/ ~pos.init],
         val |-> IF pos.init THEN pos.val ELSE UBRead(m, ub)]

\* self.data[index].write(v): the old content is overwritten, never dropped
slot_write(m, index, v) ==
    [m EXCEPT !.data[index] = Slot(v), !.ovw = @ \/ m.data[index].init]

\* fn push
push(m, item) ==
    IF ~(m.write # C)
    THEN Panic(Drop(m, item))
    ELSE Return([slot_write(m, m.write, item) EXCEPT !.write = @ + 1], Unit)

\* pop as it would be if it took from the front, as a queue does.
pop_front(m, ub) ==
    IF m.write # 0
    THEN LET m1 == [m EXCEPT !.write = @ - 1]
             t  == take(m1, 0, ub)
         IN  Return(t.m, Some(t.val))
    ELSE Return(m, None)

\* fn pop
pop(m, ub) ==
    IF m.write # 0
    THEN LET m1 == [m EXCEPT !.write = @ - 1]
             t  == take(m1, m1.write, ub)
         IN  Return(t.m, Some(t.val))
    ELSE Return(m, None)


\* fn remove, the loop `for i in index..self.write`
RECURSIVE remove_shift(_, _, _)
remove_shift(m, i, ub) ==
    IF i >= m.write
    THEN m
    ELSE LET t == take(m, i + 1, ub)
         IN  remove_shift(slot_write(t.m, i, t.val), i + 1, ub)

\* remove as it would be with the tail left where it is: only the slot at
\* index is taken and the cursor lowered.
remove_no_shift(m, index, ub) ==
    IF ~(index < m.write)
    THEN Panic(m)
    ELSE LET t == take(m, index, ub)
         IN  Return([t.m EXCEPT !.write = @ - 1], t.val)

\* fn remove
remove(m, index, ub) ==
    IF ~(index < m.write)
    THEN Panic(m)
    ELSE LET t  == take(m, index, ub)
             m1 == [t.m EXCEPT !.write = @ - 1]
         IN  Return(remove_shift(m1, index, ub), t.val)

\* swap_remove as it would be if it kept the order, as remove does.
swap_remove_ordered(m, index, ub) == remove(m, index, ub)

\* fn swap_remove
swap_remove(m, index, ub) ==
    IF ~(index < m.write)
    THEN Panic(m)
    ELSE LET t  == take(m, index, ub)
             m1 == [t.m EXCEPT !.write = @ - 1]
             l  == take(m1, m1.write, ub)
         IN  Return(slot_write(l.m, index, l.val), t.val)

\* fn insert, the loop `for i in (index..self.write).rev()`; indexing
\* self.data[i + 1] past the array panics, and unwinding drops `val`
RECURSIVE insert_shift(_, _, _, _)
insert_shift(m, index, i, ub) ==
    IF i < index
    THEN [m |-> m, panicked |-> FALSE]
    ELSE LET t == take(m, i, ub)
         IN  IF ~(i + 1 < C)
             THEN [m |-> Drop(t.m, t.val), panicked |-> TRUE]
             ELSE insert_shift(slot_write(t.m, i + 1, t.val), index, i - 1, ub)

\* insert as it would be with the shift left out: item is written over the
\* element at index.
insert_no_shift(m, index, item, ub) ==
    IF ~(index < m.write) \/ ~(m.write < C)
    THEN Panic(Drop(m, item))
    ELSE Return(slot_write([m EXCEPT !.write = @ + 1], index, item), Unit)

\* insert as it would be with the bound of Vec::insert, index <= len, so
\* that inserting at len appends.
insert_at_len(m, index, item, ub) ==
    IF ~(index <= m.write)
    THEN Panic(Drop(m, item))
    ELSE LET s == insert_shift(m, index, m.write - 1, ub)
         IN  IF s.panicked \/ ~(index < C)
             THEN Panic(Drop(s.m, item))
             ELSE Return(slot_write([s.m EXCEPT !.write = @ + 1], index, item),
                         Unit)

\* fn insert; a panic unwinds through `item` and drops it
insert(m, index, item, ub) ==
    IF ~(index < m.write)
    THEN Panic(Drop(m, item))
    ELSE LET s == insert_shift(m, index, m.write - 1, ub)
         IN  IF s.panicked
             THEN Panic(Drop(s.m, item))
             ELSE Return(slot_write([s.m EXCEPT !.write = @ + 1], index, item),
                         Unit)

\* fn retain, the loop `while i < self.write`; keep is the set of values the
\* predicate accepts, seen the values it was called on, in order
RECURSIVE retain_loop(_, _, _, _, _)

\* The loop of retain as it would be with the predicate's answer inverted.
retain_loop_inverted(m, i, keep, seen, ub) ==
    IF ~(i < m.write)
    THEN [m |-> m, seen |-> seen, i |-> i]
    ELSE LET pos == m.data[i]
             val == IF pos.init THEN pos.val ELSE UBRead(m, ub)
             m1  == [m EXCEPT !.nub = IF pos.init THEN @ ELSE @ + 1]
         IN  IF ~(val \in keep)
             THEN retain_loop(m1, i + 1, keep, Append(seen, val), ub)
             ELSE LET r == remove(m1, i, ub)
                  IN  retain_loop(Drop(r.m, r.ret), i, keep,
                                  Append(seen, val), ub)

\* The loop of retain as it would be as a plain for loop: the scan index
\* advances after a removal too.
retain_loop_advance(m, i, keep, seen, ub) ==
    IF ~(i < m.write)
    THEN [m |-> m, seen |-> seen, i |-> i]
    ELSE LET pos == m.data[i]
             val == IF pos.init THEN pos.val ELSE UBRead(m, ub)
             m1  == [m EXCEPT !.nub = IF pos.init THEN @ ELSE @ + 1]
         IN  IF val \in keep
             THEN retain_loop(m1, i + 1, keep, Append(seen, val), ub)
             ELSE LET r == remove(m1, i, ub)
                  IN  retain_loop(Drop(r.m, r.ret), i + 1, keep,
                                  Append(seen, val), ub)

retain_loop(m, i, keep, seen, ub) ==
    IF ~(i < m.write)
    THEN [m |-> m, seen |-> seen, i |-> i]
    ELSE LET pos == m.data[i]
             val == IF pos.init THEN pos.val ELSE UBRead(m, ub)
             m1  == [m EXCEPT !.nub = IF pos.init THEN @ ELSE @ + 1]
         IN  IF val \in keep
             THEN retain_loop(m1, i + 1, keep, Append(seen, val), ub)
             ELSE LET r == remove(m1, i, ub)
                  IN  retain_loop(Drop(r.m, r.ret), i, keep,
                                  Append(seen, val), ub)

\* fn retain
retain(m, keep, ub) ==
    LET r == retain_loop(m, 0, keep, <<>>, ub)
    IN  Return(r.m, [seen |-> r.seen, i |-> r.i])

\* fn clear, `(0..self.write).for_each(|i| drop(self.take(i)))`
RECURSIVE clear_loop(_, _, _)
clear_loop(m, i, ub) ==
    IF i >= m.write
    THEN m
    ELSE LET t == take(m, i, ub)
         IN  clear_loop(Drop(t.m, t.val), i + 1, ub)

\* clear as it would be without resetting the cursor.
clear_keep_len(m, ub) == Return(clear_loop(m, 0, ub), Unit)

\* fn clear
clear(m, ub) == Return([clear_loop(m, 0, ub) EXCEPT !.write = 0], Unit)

\* MaybeUninit::assume_init on slots i..n-1 of the array moved out of the
\* container, in index order
RECURSIVE assume_init(_, _, _, _)
assume_init(m, i, n, ub) ==
    IF i >= n
    THEN [m |-> m, vals |-> <<>>]
    ELSE LET pos  == m.data[i]
             v    == IF pos.init THEN pos.val ELSE UBRead(m, ub)
             m1   == [m EXCEPT !.data[i] = Uninit,
                               !.nub = IF pos.init THEN @ ELSE @ + 1]
             rest == assume_init(m1, i + 1, n, ub)
         IN  [m |-> rest.m, vals |-> <<v>> \o rest.vals]

\* into_array as it would be if it filled the array by popping: the
\* elements come out in reverse.
into_array_popped(m, ub) ==
    IF m.write = C
    THEN LET r == assume_init(m, 0, C, ub)
         IN  Return(r.m, Some([k \in 1..C |-> r.vals[C + 1 - k]]))
    ELSE Return(m, None)

\* fn into_array
into_array(m, ub) ==
    IF m.write = C
    THEN LET r == assume_init(m, 0, C, ub)
         IN  Return(r.m, Some(r.vals))
    ELSE Return(m, None)

\* fn resize, the loop `for i in 0..self.write`
RECURSIVE resize_loop(_, _, _, _)

\* The loop of resize as it would be if it copied each slot's bits and left
\* the old slot initialised.
resize_loop_copy(m, new, i, ub) ==
    IF i >= m.write
    THEN [m |-> m, new |-> new]
    ELSE resize_loop(m, [new EXCEPT ![i] = m.data[i]], i + 1, ub)

resize_loop(m, new, i, ub) ==
    IF i >= m.write
    THEN [m |-> m, new |-> new]
    ELSE LET t == take(m, i, ub)
         IN  resize_loop(t.m, [new EXCEPT ![i] = Slot(t.val)], i + 1, ub)

\* fn resize::<NEW_C>
resize(m, NEW_C, ub) ==
    IF m.write > NEW_C
    THEN Return(m, None)
    ELSE LET r == resize_loop(m, [i \in 0..(NEW_C - 1) |-> Uninit], 0, ub)
         IN  Return(r.m, Some([data |-> r.new, write |-> m.write,
                               cap |-> NEW_C]))

\* usize subtraction: a panic with overflow checks on, wrapping otherwise
usize_sub(a, b, overflow_checks) ==
    IF overflow_checks /\ a - b < 0
    THEN [panicked |-> TRUE, val |-> 0]
    ELSE [panicked |-> FALSE, val |-> (a - b) % (2 ^ UsizeBits)]

\* Iterator::take(n) over the C slots of the array
take_count(n) == IF n < C THEN n ELSE C

\* fn into_iter, drained by the caller:
\* self.data.into_iter().take(self.write - 1).map(assume_init)
into_iter(m, overflow_checks, ub) ==
    LET n == usize_sub(m.write, 1, overflow_checks)
    IN  IF n.panicked
        THEN Panic(m)
        ELSE LET r == assume_init(m, 0, take_count(n.val), ub)
             IN  Return(r.m, r.vals)

\* What is left of an iterator is dropped when a panic unwinds through it.
RECURSIVE drop_all(_, _)
drop_all(m, items) ==
    IF items = <<>> THEN m ELSE drop_all(Drop(m, Head(items)), Tail(items))

\* Extend::extend, `iter.into_iter().for_each(|i| self.push(i))`
RECURSIVE extend(_, _)

\* extend as it would be if it checked the room first and appended all or
\* nothing.
extend_all_or_nothing(m, items) ==
    IF items = <<>>
    THEN Return(m, Unit)
    ELSE IF m.write + Len(items) > C
    THEN Panic(drop_all(m, items))
    ELSE extend(push(m, Head(items)).m, Tail(items))

extend(m, items) ==
    IF items = <<>>
    THEN Return(m, Unit)
    ELSE LET r == push(m, Head(items))
         IN  IF r.panicked
             THEN Panic(drop_all(r.m, Tail(items)))
             ELSE extend(r.m, Tail(items))

\* as_slice: the slots 0..write read as values of T
as_slice(d, w) == [k \in 1..w |-> d[k - 1].val]

----------------------------------------------------------------------------
\* The program: one container, used through its public methods

\* All slots of a fresh array: MaybeUninit::uninit().assume_init()
Empty == [i \in 0..(C - 1) |-> Uninit]

\* The elements the caller can construct: distinct values of T, enough for
\* a fresh one to exist whatever the container holds.
Ids == 1..(C + MaxExtend)

\* The k smallest elements of S, in ascending order.
RECURSIVE Smallest(_, _)
Smallest(S, k) ==
    IF k = 0 \/ S = {}
    THEN <<>>
    ELSE LET x == CHOOSE y \in S : \A z \in S : y <= z
         IN  <<x>> \o Smallest(S \ {x}, k - 1)

\* k elements the caller constructs now: distinct from each other and from
\* every element the container holds.
NewItems(k) == Smallest(Ids \ Stored(data), k)

\* One element the caller constructs now.
NewItem == NewItems(1)[1]

\* Some slot below the cursor is uninitialised.
Corrupt == \E i \in 0..(write - 1) : ~data[i].init

\* How many reads of uninitialised memory a call may make.
UBNeed(n) == IF Corrupt THEN n ELSE 0

\* The number of times v occurs in the sequence s.
Count(s, v) == Cardinality({k \in DOMAIN s : s[k] = v})

\* No push-then-pop run is being followed.
NoRun == [pushed |-> <<>>, popped |-> <<>>]

\* The run of the test popping_nums, followed as the calls are made: the
\* elements pushed one after another starting from an empty container and,
\* once capacity many are in, the results of the pops that follow, up to
\* one pop more than was pushed.  Any other call ends the run.
LifoNext(op, item, r) ==
    IF op = "push" /\ ~r.panicked
    THEN IF write = 0
         THEN [pushed |-> <<item>>, popped |-> <<>>]
         ELSE IF lifo.pushed # <<>> /\ lifo.popped = <<>>
         THEN [lifo EXCEPT !.pushed = Append(@, item)]
         ELSE NoRun
    ELSE IF op = "pop" /\ Len(lifo.pushed) = C /\ Len(lifo.popped) <= C
    THEN [lifo EXCEPT !.popped = Append(@, r.ret)]
    ELSE NoRun

\* The state after a call: r is the call's outcome, consumed says whether
\* the call took the container by value, moved lists the elements whose
\* ownership passed to the caller.
Commit(op, index, item, r, consumed, moved) ==
    /\ data' = r.m.data
    /\ write' = r.m.write
    /\ alive' = ~consumed
    /\ lifo' = LifoNext(op, item, r)
    /\ last' = [op |-> op, index |-> index, item |-> item,
                pre_data |-> data, pre_write |-> write,
                ret |-> r.ret, panicked |-> r.panicked,
                bad |-> r.m.bad, ovw |-> r.m.ovw,
                dropped |-> r.m.dropped, moved |-> moved]

\* No call is under way: the caller has taken the outcome of the last one.
Idle ==
    [op |-> "idle", index |-> 0, item |-> NoElem,
     pre_data |-> Empty, pre_write |-> 0,
     ret |-> Unit, panicked |-> FALSE, bad |-> FALSE, ovw |-> FALSE,
     dropped |-> <<>>, moved |-> <<>>]

\* ArrayVec::new(): every slot uninitialised, write = 0
Fresh(d, w, a, l, f) ==
    /\ d = Empty
    /\ w = 0
    /\ a = TRUE
    /\ l = Idle
    /\ f = NoRun

Init == Fresh(data, write, alive, last, lifo)

\* A new container after the previous one is gone.
New ==
    /\ ~alive
    /\ Fresh(data', write', alive', last', lifo')

\* The container exists and the caller is free to make the next call.
Ready == alive /\ last.op = "idle"

\* The caller takes the outcome of the call (a returned value, or the panic
\* it caught) and goes on with the same container.
Resume ==
    /\ alive
    /\ last.op # "idle"
    /\ last' = Idle
    /\ UNCHANGED <<data, write, alive, lifo>>

Push ==
    /\ Ready
    /\ Commit("push", 0, NewItem, push(Machine, NewItem), FALSE, <<>>)

Pop ==
    /\ Ready
    /\ \E ub \in UBSeqs(UBNeed(1)) :
           LET r == pop(Machine, ub)
           IN  Commit("pop", 0, NoElem, r, FALSE, r.ret)

Remove ==
    /\ Ready
    /\ \E index \in 0..C : \E ub \in UBSeqs(UBNeed(1)) :
           LET r == remove(Machine, index, ub)
           IN  Commit("remove", index, NoElem, r, FALSE,
                      IF r.panicked THEN <<>> ELSE <<r.ret>>)

SwapRemove ==
    /\ Ready
    /\ \E index \in 0..C :
       \E ub \in UBSeqs(IF Corrupt THEN 2
                        ELSE IF index = write - 1 THEN 1 ELSE 0) :
           LET r == swap_remove(Machine, index, ub)
           IN  Commit("swap_remove", index, NoElem, r, FALSE,
                      IF r.panicked THEN <<>> ELSE <<r.ret>>)

Insert ==
    /\ Ready
    /\ \E index \in 0..C : \E ub \in UBSeqs(UBNeed(1)) :
           Commit("insert", index, NewItem,
                  insert(Machine, index, NewItem, ub), FALSE, <<>>)

Retain ==
    /\ Ready
    /\ \E keep \in SUBSET (IF Corrupt THEN UBValues ELSE Stored(data)) :
       \E ub \in UBSeqs(UBNeed(2)) :
           Commit("retain", 0, keep, retain(Machine, keep, ub), FALSE, <<>>)

Clear ==
    /\ Ready
    /\ \E ub \in UBSeqs(UBNeed(1)) :
           Commit("clear", 0, NoElem, clear(Machine, ub), FALSE, <<>>)

Extend ==
    /\ Ready
    /\ \E k \in 0..MaxExtend :
           Commit("extend", k, NewItems(k), extend(Machine, NewItems(k)),
                  FALSE, <<>>)

IntoArray ==
    /\ Ready
    /\ \E ub \in UBSeqs(UBNeed(1)) :
           LET r == into_array(Machine, ub)
           IN  Commit("into_array", 0, NoElem, r, TRUE,
                      IF r.ret = None THEN <<>> ELSE r.ret[1])

Resize ==
    /\ Ready
    /\ \E NEW_C \in 1..(C + 1) : \E ub \in UBSeqs(UBNeed(1)) :
           LET r == resize(Machine, NEW_C, ub)
           IN  Commit("resize", NEW_C, NoElem, r, TRUE,
                      IF r.ret = None THEN <<>>
                      ELSE as_slice(r.ret[1].data, r.ret[1].write))

IntoIter ==
    /\ Ready
    /\ \E overflow_checks \in BOOLEAN :
       \E ub \in UBSeqs(IF write = 0 /\ ~overflow_checks THEN C
                        ELSE UBNeed(1)) :
           LET r == into_iter(Machine, overflow_checks, ub)
           IN  Commit("into_iter", 0, NoElem, r, TRUE, r.ret)

\* The container goes out of scope.  ArrayVec has no Drop impl and dropping
\* a MaybeUninit<T> never drops the T, so nothing is released.
DropVec ==
    /\ Ready
    /\ Commit("drop", 0, NoElem, Return(Machine, Unit), TRUE, <<>>)

Next ==
    \/ New
    \/ Resume
    \/ Push
    \/ Pop
    \/ Remove
    \/ SwapRemove
    \/ Insert
    \/ Retain
    \/ Clear
    \/ Extend
    \/ IntoArray
    \/ Resize
    \/ IntoIter
    \/ DropVec

Spec == Init /\ [][Next]_vars

----------------------------------------------------------------------------
\* Properties.  `last` is the outcome of the call that has just returned or
\* panicked, with the container's fields as they were when it began.

\* Before the call, every slot below the cursor was initialised: the
\* container had a live sequence.
PreLive == \A i \in 0..(last.pre_write - 1) : last.pre_data[i].init

\* The live sequence before the call.
PreSeq == as_slice(last.pre_data, last.pre_write)

\* After the call, every slot below the cursor is initialised.
PostLive == \A i \in 0..(write - 1) : data[i].init

\* C1: whenever a call has returned or panicked and the container still
\* exists, 0 <= len <= C and slot i is initialised iff i < len.
CoreInvariant ==
    alive =>
        /\ write \in 0..C
        /\ \A i \in 0..(C - 1) : data[i].init <=> i < write

\* C2: no call of a public operation applies take to a slot that is
\* uninitialised at that moment (which covers taking a slot twice with no
\* write between).
TakeTargetsInitialised == ~last.bad

\* C3: when the container goes out of scope, each element live at that
\* moment is released exactly once by the destruction.
DropReleasesLive ==
    last.op = "drop" =>
        \A i \in 0..(last.pre_write - 1) :
            last.pre_data[i].init =>
                Count(last.dropped, last.pre_data[i].val) = 1

\* C4: consuming iteration of a non-empty container with live sequence s
\* yields s[0], ..., s[len-1], all len of them, in index order.
IntoIterYieldsLive ==
    (last.op = "into_iter" /\ PreLive /\ last.pre_write > 0) =>
        /\ ~last.panicked
        /\ last.ret = PreSeq

\* C5: insert with index < len on a full container panics and leaves len
\* and every slot below len initialised and holding what it held.
InsertFullIntact ==
    (last.op = "insert" /\ last.index < last.pre_write
        /\ last.pre_write = C /\ PreLive) =>
        /\ last.panicked
        /\ write = last.pre_write
        /\ \A i \in 0..(write - 1) : data[i].init /\ data[i] = last.pre_data[i]

\* C6: swap_remove(index) with index < len on a container with live sequence
\* s returns s[index], lowers len by one and leaves s with position index
\* holding s[len-1] and the last position gone; for index = len-1 that is s
\* without its last element.
SwapRemoveCorrect ==
    (last.op = "swap_remove" /\ last.index < last.pre_write /\ PreLive) =>
        /\ ~last.panicked
        /\ last.ret = PreSeq[last.index + 1]
        /\ write = last.pre_write - 1
        /\ PostLive
        /\ as_slice(data, write) =
               [k \in 1..(last.pre_write - 1) |->
                    IF k = last.index + 1 THEN PreSeq[last.pre_write]
                                          ELSE PreSeq[k]]

\* C6 witness: the last of at least two elements was swap-removed.
SwapRemoveLastDone ==
    /\ last.op = "swap_remove"
    /\ ~last.panicked
    /\ PreLive
    /\ last.pre_write >= 2
    /\ last.index = last.pre_write - 1

\* C7: push on a full container, and remove, swap_remove or insert with
\* index >= len, panic and leave len and every slot as they were.
PreconditionPanicsUnchanged ==
    (\/ last.op = "push" /\ last.pre_write = C
     \/ last.op \in {"remove", "swap_remove", "insert"}
            /\ last.index >= last.pre_write) =>
        /\ last.panicked
        /\ write = last.pre_write
        /\ data = last.pre_data

\* C7 witness: insert at index = len on a container that is neither empty
\* nor full has panicked.
InsertAtLenPanicked ==
    /\ last.op = "insert"
    /\ last.panicked
    /\ last.index = last.pre_write
    /\ last.pre_write \in 1..(C - 1)

ResizeCorrect ==
    (last.op = "resize" /\ PreLive) =>
        /\ (last.ret = None) <=> (last.pre_write > last.index)
        /\ last.ret # None =>
               LET new == last.ret[1]
               IN  /\ new.cap = last.index
                   /\ DOMAIN new.data = 0..(last.index - 1)
                   /\ new.write = last.pre_write
                   /\ \A i \in DOMAIN new.data :
                          new.data[i] = IF i < last.pre_write
                                        THEN last.pre_data[i] ELSE Uninit
                   /\ ~last.bad
                   /\ \A i \in 0..(last.pre_write - 1) : ~data[i].init
                   /\ last.dropped = <<>>
                   /\ last.moved = PreSeq

\* C9 witness: a container holding at least two elements was resized to a
\* larger capacity.
ResizeGrown ==
    /\ last.op = "resize"
    /\ PreLive
    /\ last.ret # None
    /\ last.pre_write >= 2
    /\ last.index > C

\* C10: remove(index) with index < len on a container with live sequence s
\* returns s[index], lowers len by one and leaves s with position index
\* deleted, the other elements in their order.
RemoveCorrect ==
    (last.op = "remove" /\ last.index < last.pre_write /\ PreLive) =>
        /\ ~last.panicked
        /\ last.ret = PreSeq[last.index + 1]
        /\ write = last.pre_write - 1
        /\ PostLive
        /\ as_slice(data, write) =
               [k \in 1..(last.pre_write - 1) |->
                    IF k <= last.index THEN PreSeq[k] ELSE PreSeq[k + 1]]

\* C10 witness: the first element of a full container was removed, so every
\* other element moved.
RemoveFirstOfFull ==
    /\ last.op = "remove"
    /\ ~last.panicked
    /\ PreLive
    /\ last.index = 0
    /\ last.pre_write = C

\* C11: insert(index, item) with index < len < capacity on a container with
\* live sequence s raises len by one and leaves s[0..index], item,
\* s[index..len]; no element is dropped or handed out on the way.
InsertCorrect ==
    (last.op = "insert" /\ last.index < last.pre_write
        /\ last.pre_write < C /\ PreLive) =>
        /\ ~last.panicked
        /\ write = last.pre_write + 1
        /\ PostLive
        /\ as_slice(data, write) =
               [k \in 1..(last.pre_write + 1) |->
                    IF k <= last.index THEN PreSeq[k]
                    ELSE IF k = last.index + 1 THEN last.item
                    ELSE PreSeq[k - 1]]
        /\ last.dropped = <<>>
        /\ last.moved = <<>>

\* C11 witness: an element was inserted at the front of a container one
\* short of full, so every element moved.
InsertFrontDone ==
    /\ last.op = "insert"
    /\ ~last.panicked
    /\ PreLive
    /\ last.index = 0
    /\ last.pre_write = C - 1

\* The subsequence of s of the elements in keep.
Filter(s, keep) == SelectSeq(s, LAMBDA v : v \in keep)

\* C12: retain leaves exactly the elements the predicate accepts, in their
\* original order, and len is their number.
RetainCorrect ==
    (last.op = "retain" /\ PreLive) =>
        /\ ~last.panicked
        /\ PostLive
        /\ as_slice(data, write) = Filter(PreSeq, last.item)
        /\ write = Len(Filter(PreSeq, last.item))

\* C12 witness: retain on a full container kept the first and the last
\* element and removed what lay between.
RetainEndsKept ==
    /\ last.op = "retain"
    /\ PreLive
    /\ last.pre_write = C
    /\ write = 2
    /\ data[0] = last.pre_data[0]
    /\ data[1] = last.pre_data[C - 1]

\* C20: retain ends having called the predicate once on each original
\* element, in ascending original order (so n times for len = n), every
\* iteration having advanced the scan index or lowered len, and with the
\* scan index equal to the final len.
RetainScansOnce ==
    (last.op = "retain" /\ PreLive) =>
        /\ last.ret.seen = PreSeq
        /\ Len(last.ret.seen) = last.ret.i + (last.pre_write - write)
        /\ last.ret.i = write

\* C20 witness: retain on a full container removed some elements and kept
\* others.
RetainMixed ==
    /\ last.op = "retain"
    /\ PreLive
    /\ last.pre_write = C
    /\ write \in 1..(C - 1)

\* C14: into_array on a container with a live sequence returns an array iff
\* len = capacity, and then element i of the array is the element that was
\* live at index i.
IntoArrayCorrect ==
    (last.op = "into_array" /\ PreLive) =>
        /\ (last.ret # None) <=> (last.pre_write = C)
        /\ last.ret # None => last.ret[1] = PreSeq

\* C14 witness: a full container was turned into an array.
IntoArrayFull ==
    /\ last.op = "into_array"
    /\ PreLive
    /\ last.ret # None

\* C15: clear in any reachable state releases the elements at indices 0..len
\* once each, in ascending order, sets len to 0 and leaves every slot
\* uninitialised; on an empty container it releases nothing.
ClearReleasesAll ==
    last.op = "clear" =>
        /\ ~last.bad
        /\ last.dropped = PreSeq
        /\ write = 0
        /\ \A i \in 0..(C - 1) : ~data[i].init
        /\ last.pre_write = 0 => last.dropped = <<>>

\* C16: extend with k elements on a container with live sequence s appends
\* them in order: all k if len + k <= capacity; otherwise it panics having
\* appended the first capacity - len, which stay, with len = capacity.
ExtendCorrect ==
    (last.op = "extend" /\ PreLive) =>
        LET k     == last.index
            items == last.item
            room  == C - last.pre_write
        IN  /\ PostLive
            /\ k <= room =>
                   /\ ~last.panicked
                   /\ write = last.pre_write + k
                   /\ as_slice(data, write) = PreSeq \o items
            /\ k > room =>
                   /\ last.panicked
                   /\ write = C
                   /\ as_slice(data, write) = PreSeq \o SubSeq(items, 1, room)

\* C16 witness: extend with more elements than there was room for has
\* panicked after appending one.
ExtendOverflowed ==
    /\ last.op = "extend"
    /\ PreLive
    /\ last.panicked
    /\ last.pre_write = C - 1
    /\ last.index = 2

\* C18: no call writes a value into a slot that is initialised at that
\* moment.
WritesTargetUninitialised == ~last.ovw

\* C19: consuming iteration of an empty container yields the empty sequence
\* without failing.
IntoIterEmpty ==
    (last.op = "into_iter" /\ last.pre_write = 0) =>
        /\ ~last.panicked
        /\ last.ret = <<>>

\* C13: capacity many pushes from an empty container followed by capacity
\* many pops return the elements in reverse push order and bring len back
\* to 0, and one more pop returns None with len still 0; and any pop on a
\* container with a non-empty live sequence returns the element at len-1 and
\* lowers len by one.
PushPopLifo ==
    /\ Len(lifo.pushed) = C =>
           /\ \A j \in 1..Len(lifo.popped) :
                  lifo.popped[j] = IF j <= C THEN Some(lifo.pushed[C + 1 - j])
                                            ELSE None
           /\ write = IF Len(lifo.popped) <= C THEN C - Len(lifo.popped)
                                               ELSE 0
    /\ (last.op = "pop" /\ PreLive /\ last.pre_write > 0) =>
           /\ last.ret = Some(PreSeq[last.pre_write])
           /\ write = last.pre_write - 1
           /\ as_slice(data, write) = SubSeq(PreSeq, 1, last.pre_write - 1)

\* C13 witness: capacity many pushes, capacity many pops and one more pop
\* have been made.
PushPopRoundTripDone ==
    /\ Len(lifo.pushed) = C
    /\ Len(lifo.popped) = C + 1

\* The operations of the reference bounded sequence.
RefPush(s, x) == Append(s, x)
RefPop(s) == IF s = <<>> THEN s ELSE SubSeq(s, 1, Len(s) - 1)
RefInsert(s, i, x) == SubSeq(s, 1, i) \o <<x>> \o SubSeq(s, i + 1, Len(s))
RefRemove(s, i) == SubSeq(s, 1, i) \o SubSeq(s, i + 2, Len(s))
RefSwapRemove(s, i) ==
    IF i = Len(s) - 1
    THEN SubSeq(s, 1, i)
    ELSE SubSeq(s, 1, i) \o <<s[Len(s)]>> \o SubSeq(s, i + 2, Len(s) - 1)
RefRetain(s, keep) == Filter(s, keep)
RefClear(s) == <<>>

\* The call just made is one the reference sequence accepts: its
\* precondition held on the live sequence it was made on.
RefAccepts ==
    /\ PreLive
    /\ CASE last.op = "push" -> last.pre_write < C
         [] last.op = "insert" ->
                last.index < last.pre_write /\ last.pre_write < C
         [] last.op \in {"remove", "swap_remove"} ->
                last.index < last.pre_write
         [] last.op \in {"pop", "retain", "clear"} -> TRUE
         [] OTHER -> FALSE

\* The reference sequence after the same call.
RefAfter ==
    CASE last.op = "push" -> RefPush(PreSeq, last.item)
      [] last.op = "pop" -> RefPop(PreSeq)
      [] last.op = "insert" -> RefInsert(PreSeq, last.index, last.item)
      [] last.op = "remove" -> RefRemove(PreSeq, last.index)
      [] last.op = "swap_remove" -> RefSwapRemove(PreSeq, last.index)
      [] last.op = "retain" -> RefRetain(PreSeq, last.item)
      [] last.op = "clear" -> RefClear(PreSeq)

\* C17: as_slice refines the reference bounded sequence.  Every call the
\* reference accepts takes a container showing s to one that shows what the
\* reference operation makes of s, with every slot below len initialised
\* again; the new container shows the empty sequence (Fresh), so after any
\* sequence of accepted calls as_slice equals the reference sequence.
AsSliceRefines ==
    RefAccepts =>
        /\ ~last.panicked
        /\ PostLive
        /\ as_slice(data, write) = RefAfter

\* C17 witness: an accepted swap_remove of the first element of a full
\* container has been made.
RefSwapRemoveDone ==
    /\ RefAccepts
    /\ last.op = "swap_remove"
    /\ last.index = 0
    /\ last.pre_write = C

=============================================================================
